---- MODULE Spec2Model ----
(***************************************************************************)
(* A model of the STRING local-network engine: app/db.py (identifier       *)
(* resolution, batched edge retrieval, budgeted 1-hop expansion) and the   *)
(* part of scripts/build_db.py that fills the edge tables.                 *)
(*                                                                         *)
(* Strings are sequences of character codes, so that trimming, ASCII case  *)
(* folding and Python's code-point ordering are computed and not assumed.  *)
(* A table is the sequence of its rows in storage (rowid) order; a query   *)
(* without ORDER BY returns the matching rows in that order.               *)
(***************************************************************************)
EXTENDS Integers, Sequences, FiniteSets

VARIABLES
    pc,          \* "build" (store being filled) | "ready" | "done" (one request served)
    links_file,  \* the parsed lines of the links file handed to load_edges
    edges_table, \* edges_func / edges_phys: rows <<p1, p2, score_int>> in rowid order
    hash_order,  \* iteration order of this process's str sets (a permutation of Ids)
    proteins,    \* proteins table: rows <<protein_id, preferred_name>>
    aliases,     \* aliases table: runs of equal rows, in rowid order
    call,        \* the request served: operation and arguments
    ret          \* what the operation returned

vars == <<pc, links_file, edges_table, hash_order, proteins, aliases, call, ret>>

(***************************************************************************)
(* Strings                                                                 *)
(***************************************************************************)
\* Python None / SQL NULL: a value that is no string.
None == << -1 >>

Range(s) == {s[i] : i \in 1..Len(s)}

Min(a, b) == IF a <= b THEN a ELSE b

\* Python's str "<": lexicographic on code points, a proper prefix is smaller.
RECURSIVE StrLess(_, _)
StrLess(a, b) ==
    IF b = <<>> THEN FALSE
    ELSE IF a = <<>> THEN TRUE
    ELSE IF Head(a) # Head(b) THEN Head(a) < Head(b)
    ELSE StrLess(Tail(a), Tail(b))

\* One-letter identifiers "A", "B", "C", "D".
A == <<65>>
B == <<66>>
C == <<67>>
D == <<68>>
Ids == {A, B, C, D}

(***************************************************************************)
(* app/db.py: batching and set iteration                                   *)
(***************************************************************************)
\* _chunked that yields the full windows only and drops a shorter last one.
_chunked_FullWindowsOnly(seq, n) ==
    [k \in 1..(Len(seq) \div n) |-> SubSeq(seq, (k - 1) * n + 1, k * n)]

\* _chunked(seq, n): the windows seq[i : i + n] for i = 0, n, 2n, ...
_chunked(seq, n) ==
    [k \in 1..((Len(seq) + n - 1) \div n) |->
        SubSeq(seq, (k - 1) * n + 1, Min(k * n, Len(seq)))]

\* list(S) for a set S of str: the members in this process's iteration order.
ListOfSet(S) == SelectSeq(hash_order, LAMBDA x : x \in S)

RECURSIVE Concat(_)
Concat(ss) == IF ss = <<>> THEN <<>> ELSE Head(ss) \o Concat(Tail(ss))

\* SELECT p1, p2, score_int FROM table WHERE score_int >= thr AND p1 IN (chunk)
SelectByP1(thr, chunk) ==
    SelectSeq(edges_table, LAMBDA r : r[3] >= thr /\ r[1] \in Range(chunk))

\* SELECT p1, p2, score_int FROM table WHERE score_int >= thr AND p2 IN (chunk)
SelectByP2(thr, chunk) ==
    SelectSeq(edges_table, LAMBDA r : r[3] >= thr /\ r[2] \in Range(chunk))

(***************************************************************************)
(* app/db.py: edge retrieval.  conn and table select the edge table, which *)
(* is edges_table here.  The source passes the literal window 900 to       *)
(* _chunked; the operators take the window n as a parameter so that the    *)
(* batch loop can be run with more than one batch on small id sets (any    *)
(* n >= the number of ids is the single-batch run of the source).          *)
(***************************************************************************)
\* fetch_edges_induced with p2 filtered against the batch instead of the whole id set.
fetch_edges_induced_FilterInBatch(protein_ids, score_thr_int, n) ==
    IF protein_ids = <<>> THEN <<>>
    ELSE
        LET pid_set == Range(protein_ids)
            chunks == _chunked(ListOfSet(pid_set), n)
            kept(chunk) ==
                SelectSeq(SelectByP1(score_thr_int, chunk), LAMBDA r : r[2] \in Range(chunk))
        IN  Concat([k \in 1..Len(chunks) |-> kept(chunks[k])])

fetch_edges_induced(protein_ids, score_thr_int, n) ==
    IF protein_ids = <<>> THEN <<>>
    ELSE
        LET pid_set == Range(protein_ids)
            chunks == _chunked(ListOfSet(pid_set), n)
            kept(chunk) ==
                SelectSeq(SelectByP1(score_thr_int, chunk), LAMBDA r : r[2] \in pid_set)
        IN  Concat([k \in 1..Len(chunks) |-> kept(chunks[k])])

\* The dedupe loop without the score comparison: the first score seen is kept.
RECURSIVE DedupeMax_KeepFirst(_, _)
DedupeMax_KeepFirst(edges, uniq) ==
    IF edges = <<>> THEN uniq
    ELSE
        LET e == Head(edges)
            at == {i \in 1..Len(uniq) : uniq[i][1] = e[1] /\ uniq[i][2] = e[2]}
        IN  IF at = {}
            THEN DedupeMax_KeepFirst(Tail(edges), Append(uniq, e))
            ELSE DedupeMax_KeepFirst(Tail(edges), uniq)

\* The dedupe loop: uniq keeps, per (p1, p2) key in first-insertion order,
\* the largest score seen; the result lists uniq's items.
RECURSIVE DedupeMax(_, _)
DedupeMax(edges, uniq) ==
    IF edges = <<>> THEN uniq
    ELSE
        LET e == Head(edges)
            at == {i \in 1..Len(uniq) : uniq[i][1] = e[1] /\ uniq[i][2] = e[2]}
        IN  IF at = {}
            THEN DedupeMax(Tail(edges), Append(uniq, e))
            ELSE LET i == CHOOSE j \in at : TRUE
                 IN  IF e[3] > uniq[i][3]
                     THEN DedupeMax(Tail(edges), [uniq EXCEPT ![i] = e])
                     ELSE DedupeMax(Tail(edges), uniq)

\* The batch loop without its second, p2-anchored query.
AdjacentRows_P1Only(seed_ids, score_thr_int, n) ==
    LET seed_set == Range(seed_ids)
        chunks == _chunked(ListOfSet(seed_set), n)
    IN  Concat([k \in 1..Len(chunks) |-> SelectByP1(score_thr_int, chunks[k])])

\* The rows appended by the batch loop of fetch_edges_adjacent, before the dedupe.
AdjacentRows(seed_ids, score_thr_int, n) ==
    LET seed_set == Range(seed_ids)
        chunks == _chunked(ListOfSet(seed_set), n)
    IN  Concat([k \in 1..Len(chunks) |->
                   SelectByP1(score_thr_int, chunks[k]) \o SelectByP2(score_thr_int, chunks[k])])

fetch_edges_adjacent(seed_ids, score_thr_int, n) ==
    IF seed_ids = <<>> THEN <<>>
    ELSE DedupeMax(AdjacentRows(seed_ids, score_thr_int, n), <<>>)

(***************************************************************************)
(* app/db.py: expand_1hop                                                  *)
(***************************************************************************)
\* neighbor_score[key] = neighbor_score.get(key, 0) + sc, on a dict kept as
\* its items <<key, total>> in insertion order.
DictAdd(d, key, sc) ==
    LET at == {i \in 1..Len(d) : d[i][1] = key}
    IN  IF at = {}
        THEN Append(d, <<key, sc>>)
        ELSE LET i == CHOOSE j \in at : TRUE
             IN  [d EXCEPT ![i] = <<key, d[i][2] + sc>>]

\* The accumulation loop without the "not both seeds" conditions.
RECURSIVE NeighborScore_AnySeedEdge(_, _, _)
NeighborScore_AnySeedEdge(adj_edges, seed_set, d) ==
    IF adj_edges = <<>> THEN d
    ELSE
        LET e == Head(adj_edges)
        IN  IF e[1] \in seed_set
            THEN NeighborScore_AnySeedEdge(Tail(adj_edges), seed_set, DictAdd(d, e[2], e[3]))
            ELSE IF e[2] \in seed_set
            THEN NeighborScore_AnySeedEdge(Tail(adj_edges), seed_set, DictAdd(d, e[1], e[3]))
            ELSE NeighborScore_AnySeedEdge(Tail(adj_edges), seed_set, d)

\* The accumulation loop over adj_edges.
RECURSIVE NeighborScore(_, _, _)
NeighborScore(adj_edges, seed_set, d) ==
    IF adj_edges = <<>> THEN d
    ELSE
        LET e == Head(adj_edges)
            a_in == e[1] \in seed_set
            b_in == e[2] \in seed_set
        IN  IF a_in /\ ~b_in
            THEN NeighborScore(Tail(adj_edges), seed_set, DictAdd(d, e[2], e[3]))
            ELSE IF b_in /\ ~a_in
            THEN NeighborScore(Tail(adj_edges), seed_set, DictAdd(d, e[1], e[3]))
            ELSE NeighborScore(Tail(adj_edges), seed_set, d)

\* The sort key without its tie-break: key=lambda x: -x[1].
RankBefore_ScoreOnly(x, y) == -x[2] < -y[2]

\* key=lambda x: (-x[1], x[0]) compared as Python compares tuples.
RankBefore(x, y) ==
    \/ -x[2] < -y[2]
    \/ -x[2] = -y[2] /\ StrLess(x[1], y[1])

\* sorted(items, key=...): a stable sort, an item goes after the items it
\* does not rank before.
RECURSIVE InsertRanked(_, _)
InsertRanked(sorted, x) ==
    IF sorted = <<>> THEN <<x>>
    ELSE IF RankBefore(x, Head(sorted))
    THEN <<x>> \o sorted
    ELSE <<Head(sorted)>> \o InsertRanked(Tail(sorted), x)

RECURSIVE SortRanked(_)
SortRanked(items) ==
    IF items = <<>> THEN <<>>
    ELSE InsertRanked(SortRanked(SubSeq(items, 1, Len(items) - 1)), items[Len(items)])

\* The neighbors admitted by the "choose neighbors" step, in rank order.
TopNeighbors(neighbor_score, remain) ==
    LET ranked == SortRanked(neighbor_score)
    IN  [i \in 1..Min(remain, Len(ranked)) |-> ranked[i][1]]

\* expand_1hop that cuts the node list to max_nodes before the induced query.
expand_1hop_Truncated(seed_ids, score_thr_int, max_nodes, n) ==
    LET seed_set == Range(seed_ids)
    IN  IF seed_set = {} THEN [nodes |-> <<>>, edges |-> <<>>, neighbor_score |-> <<>>]
        ELSE
            LET adj_edges == fetch_edges_adjacent(ListOfSet(seed_set), score_thr_int, n)
                neighbor_score == NeighborScore(adj_edges, seed_set, <<>>)
                seeds == ListOfSet(seed_set)
                nodes ==
                    IF Len(seeds) < max_nodes /\ neighbor_score # <<>>
                    THEN seeds \o TopNeighbors(neighbor_score, max_nodes - Len(seeds))
                    ELSE SubSeq(seeds, 1, Min(Len(seeds), max_nodes))
            IN  [nodes |-> nodes,
                 edges |-> fetch_edges_induced(nodes, score_thr_int, n),
                 neighbor_score |-> neighbor_score]

\* expand_1hop that returns the adjacency pass's edges among the final nodes
\* instead of running the induced query.
expand_1hop_AdjacentEdges(seed_ids, score_thr_int, max_nodes, n) ==
    LET seed_set == Range(seed_ids)
    IN  IF seed_set = {} THEN [nodes |-> <<>>, edges |-> <<>>, neighbor_score |-> <<>>]
        ELSE
            LET adj_edges == fetch_edges_adjacent(ListOfSet(seed_set), score_thr_int, n)
                neighbor_score == NeighborScore(adj_edges, seed_set, <<>>)
                seeds == ListOfSet(seed_set)
                nodes ==
                    IF Len(seeds) < max_nodes /\ neighbor_score # <<>>
                    THEN seeds \o TopNeighbors(neighbor_score, max_nodes - Len(seeds))
                    ELSE seeds
            IN  [nodes |-> nodes,
                 edges |-> SelectSeq(adj_edges, LAMBDA e : e[1] \in Range(nodes) /\ e[2] \in Range(nodes)),
                 neighbor_score |-> neighbor_score]

\* Returns (nodes, induced_edges); the local neighbor_score is kept beside
\* them so that the accumulation can be observed.
expand_1hop(seed_ids, score_thr_int, max_nodes, n) ==
    LET seed_set == Range(seed_ids)
    IN  IF seed_set = {} THEN [nodes |-> <<>>, edges |-> <<>>, neighbor_score |-> <<>>]
        ELSE
            LET adj_edges == fetch_edges_adjacent(ListOfSet(seed_set), score_thr_int, n)
                neighbor_score == NeighborScore(adj_edges, seed_set, <<>>)
                seeds == ListOfSet(seed_set)
                nodes ==
                    IF Len(seeds) < max_nodes /\ neighbor_score # <<>>
                    THEN seeds \o TopNeighbors(neighbor_score, max_nodes - Len(seeds))
                    ELSE seeds
            IN  [nodes |-> nodes,
                 edges |-> fetch_edges_induced(nodes, score_thr_int, n),
                 neighbor_score |-> neighbor_score]

(***************************************************************************)
(* app/db.py: resolve_ids                                                  *)
(***************************************************************************)
\* Python's str.strip(): leading and trailing ASCII whitespace removed.
IsSpace(c) == c \in {9, 10, 11, 12, 13, 32}

\* strip() replaced by lstrip(): trailing whitespace is kept.
strip_LeftOnly(s) ==
    LET kept == {i \in 1..Len(s) : ~IsSpace(s[i])}
    IN  IF kept = {} THEN <<>>
        ELSE SubSeq(s, CHOOSE i \in kept : \A j \in kept : i <= j, Len(s))

strip(s) ==
    LET kept == {i \in 1..Len(s) : ~IsSpace(s[i])}
    IN  IF kept = {} THEN <<>>
        ELSE SubSeq(s, CHOOSE i \in kept : \A j \in kept : i <= j,
                       CHOOSE i \in kept : \A j \in kept : j <= i)

\* SQLite's NOCASE collation: the 26 ASCII upper-case letters are folded.
Lower(c) == IF 65 <= c /\ c <= 90 THEN c + 32 ELSE c

EqNoCase(a, b) ==
    /\ Len(a) = Len(b)
    /\ \A i \in 1..Len(a) : Lower(a[i]) = Lower(b[i])

priority_sources ==
  <<
     <<69, 110, 115, 101, 109, 98, 108>>,  \* "Ensembl"
     <<69, 110, 115, 101, 109, 98, 108, 95, 72, 71, 78, 67>>,  \* "Ensembl_HGNC"
     <<69, 110, 115, 101, 109, 98, 108, 95, 69, 110, 116, 114, 101, 122, 71, 101, 110, 101>>,  \* "Ensembl_EntrezGene"
     <<72, 71, 78, 67>>,  \* "HGNC"
     <<85, 110, 105, 80, 114, 111, 116>>,  \* "UniProt"
     <<71, 101, 110, 101, 95, 78, 97, 109, 101>>,  \* "Gene_Name"
     <<66, 76, 65, 83, 84, 95, 85, 110, 105, 80, 114, 111, 116>>,  \* "BLAST_UniProt"
     <<82, 101, 102, 83, 101, 113>>,  \* "RefSeq"
     <<69, 110, 116, 114, 101, 122, 71, 101, 110, 101>>,  \* "EntrezGene"
     <<66, 105, 111, 77, 97, 114, 116, 95, 72, 85, 71, 79>>  \* "BioMart_HUGO"
  >>

\* score_source with unlisted sources ranked before the listed ones.
score_source_UnlistedFirst(src) ==
    IF src = None THEN 10000
    ELSE LET at == {i \in 1..Len(priority_sources) : priority_sources[i] = src}
         IN  IF at # {} THEN (CHOOSE i \in at : \A j \in at : i <= j) - 1
             ELSE -1

score_source(src) ==
    IF src = None THEN 10000
    ELSE LET at == {i \in 1..Len(priority_sources) : priority_sources[i] = src}
         IN  IF at # {} THEN (CHOOSE i \in at : \A j \in at : i <= j) - 1
             ELSE 9999

\* SELECT protein_id, preferred_name FROM proteins WHERE protein_id = ?
\* (.fetchone(): the first such row, or None).
DirectMatch(q2) ==
    LET hit == SelectSeq(proteins, LAMBDA p : p[1] = q2)
    IN  IF hit = <<>> THEN None ELSE hit[1]

\* LEFT JOIN proteins p ON a.protein_id = p.protein_id: p.preferred_name or NULL.
JoinedName(protein_id) ==
    LET hit == SelectSeq(proteins, LAMBDA p : p[1] = protein_id)
    IN  IF hit = <<>> THEN None ELSE hit[1][2]

\* The alias comparison under the default BINARY collation instead of NOCASE.
AliasMatches_CaseSensitive(row, q2, taxon_id) ==
    /\ row[1] = q2
    /\ (taxon_id # None /\ taxon_id # <<>>) => row[4] = taxon_id

\* WHERE a.alias = ? [AND a.taxon_id = ?] on a row <<alias, protein_id, source, taxon_id>>;
\* "if taxon_id:" adds the second condition for a non-empty taxon_id only.
AliasMatches(row, q2, taxon_id) ==
    /\ EqNoCase(row[1], q2)
    /\ (taxon_id # None /\ taxon_id # <<>>) => row[4] = taxon_id

\* LIMIT k on a run-length list of rows: the first k rows.
RECURSIVE Limit(_, _)
Limit(runs, k) ==
    IF runs = <<>> \/ k <= 0 THEN <<>>
    ELSE <<[Head(runs) EXCEPT ![2] = Min(Head(runs)[2], k)]>>
             \o Limit(Tail(runs), k - Head(runs)[2])

AliasLimit == 50

\* The alias query: rows [protein_id, source, preferred_name] as runs <<row, count>>.
AliasSelect(q2, taxon_id) ==
    LET matched == SelectSeq(aliases, LAMBDA run : AliasMatches(run[1], q2, taxon_id))
        limited == Limit(matched, AliasLimit)
    IN  [k \in 1..Len(limited) |->
            << [protein_id |-> limited[k][1][2],
                source |-> limited[k][1][3],
                preferred_name |-> JoinedName(limited[k][1][2])],
               limited[k][2] >>]

RECURSIVE RowCount(_)
RowCount(runs) == IF runs = <<>> THEN 0 ELSE Head(runs)[2] + RowCount(Tail(runs))

\* key=lambda r: (score_source(r["source"]), r["protein_id"]) compared as tuples.
KeyBefore(r1, r2) ==
    \/ score_source(r1.source) < score_source(r2.source)
    \/ /\ score_source(r1.source) = score_source(r2.source)
       /\ StrLess(r1.protein_id, r2.protein_id)

\* sorted(rows, key=...): stable, a run goes after the runs it is not before.
RECURSIVE InsertByKey(_, _)
InsertByKey(sorted, run) ==
    IF sorted = <<>> THEN <<run>>
    ELSE IF KeyBefore(run[1], Head(sorted)[1])
    THEN <<run>> \o sorted
    ELSE <<Head(sorted)>> \o InsertByKey(Tail(sorted), run)

RECURSIVE SortByKey(_)
SortByKey(runs) ==
    IF runs = <<>> THEN <<>>
    ELSE InsertByKey(SortByKey(SubSeq(runs, 1, Len(runs) - 1)), runs[Len(runs)])

\* sorted_rows[:k] as a plain list of rows.
RECURSIVE FirstRows(_, _)
FirstRows(runs, k) ==
    IF runs = <<>> \/ k <= 0 THEN <<>>
    ELSE [i \in 1..Min(Head(runs)[2], k) |-> Head(runs)[1]]
             \o FirstRows(Tail(runs), k - Head(runs)[2])

MaxCandidates == 10

\* str(x) inside an f-string: None prints as "None".
StrOf(x) == IF x = None THEN <<78, 111, 110, 101>> ELSE x

\* f'{r["protein_id"]}({r["source"]})'
FormatCandidate(r) == StrOf(r.protein_id) \o <<40>> \o StrOf(r.source) \o <<41>>

\* "; ".join(items)
RECURSIVE Join(_)
Join(items) ==
    IF items = <<>> THEN <<>>
    ELSE IF Len(items) = 1 THEN items[1]
    ELSE items[1] \o <<59, 32>> \o Join(Tail(items))

ResolvedItem(query, status, protein_id, preferred_name, source, candidates) ==
    [query |-> query, status |-> status, protein_id |-> protein_id,
     preferred_name |-> preferred_name, source |-> source, candidates |-> candidates]

\* "direct"
Direct == <<100, 105, 114, 101, 99, 116>>

\* The loop body with the alias lookup tried before the primary-key lookup.
ResolveOne_AliasFirst(q2, taxon_id) ==
    LET rows == AliasSelect(q2, taxon_id)
        row == DirectMatch(q2)
    IN  IF rows = <<>>
        THEN IF row # None
             THEN ResolvedItem(q2, "resolved", row[1], row[2], Direct, None)
             ELSE ResolvedItem(q2, "unresolved", None, None, None, None)
        ELSE IF RowCount(rows) = 1
        THEN LET r == rows[1][1]
             IN  ResolvedItem(q2, "resolved", r.protein_id, r.preferred_name, r.source, None)
        ELSE LET sorted_rows == SortByKey(rows)
                 best == sorted_rows[1][1]
                 candidates ==
                     Join([i \in 1..Min(MaxCandidates, RowCount(sorted_rows)) |->
                              FormatCandidate(FirstRows(sorted_rows, MaxCandidates)[i])])
             IN  ResolvedItem(q2, "ambiguous", best.protein_id,
                              best.preferred_name, best.source, candidates)

\* The body of the loop for a non-empty trimmed query q2: the item appended.
ResolveOne(q2, taxon_id) ==
    LET row == DirectMatch(q2)
    IN  IF row # None
        THEN ResolvedItem(q2, "resolved", row[1], row[2], Direct, None)
        ELSE
            LET rows == AliasSelect(q2, taxon_id)
            IN  IF rows = <<>>
                THEN ResolvedItem(q2, "unresolved", None, None, None, None)
                ELSE IF RowCount(rows) = 1
                THEN LET r == rows[1][1]
                     IN  ResolvedItem(q2, "resolved", r.protein_id, r.preferred_name,
                                      r.source, None)
                ELSE LET sorted_rows == SortByKey(rows)
                         best == sorted_rows[1][1]
                         candidates ==
                             Join([i \in 1..Min(MaxCandidates, RowCount(sorted_rows)) |->
                                      FormatCandidate(FirstRows(sorted_rows, MaxCandidates)[i])])
                     IN  ResolvedItem(q2, "ambiguous", best.protein_id,
                                      best.preferred_name, best.source, candidates)

RECURSIVE resolve_ids(_, _)
resolve_ids(queries, taxon_id) ==
    IF queries = <<>> THEN <<>>
    ELSE LET q2 == strip(Head(queries))
         IN  IF q2 = <<>>
             THEN resolve_ids(Tail(queries), taxon_id)
             ELSE <<ResolveOne(q2, taxon_id)>> \o resolve_ids(Tail(queries), taxon_id)

(***************************************************************************)
(* scripts/build_db.py: load_edges                                         *)
(***************************************************************************)
\* One data line: the canonical (p1 <= p2) row it is stored as.
CanonicalRow(line) ==
    IF StrLess(line[2], line[1])
    THEN <<line[2], line[1], line[3]>>
    ELSE <<line[1], line[2], line[3]>>

\* Every line is inserted, in file order; nothing is merged.
load_edges(file) == [i \in 1..Len(file) |-> CanonicalRow(file[i])]

(***************************************************************************)
(* The graph engine: one store built by load_edges, one request served.    *)
(***************************************************************************)
MaxLines == 2    \* lines of a generated links file
MaxWindow == 2   \* largest batch window tried
MaxBudget == 3   \* largest max_nodes tried

\* Lines of a links file: both directions of a pair, two scores.
Lines == {<<A, B, 400>>, <<A, B, 700>>, <<B, A, 400>>, <<B, A, 700>>,
          <<A, C, 400>>, <<A, C, 700>>, <<C, A, 400>>, <<C, A, 700>>}

\* Scenario A of the specification.
ScenarioA == << <<A, B, 500>>, <<A, C, 900>>, <<B, C, 100>>, <<C, D, 950>> >>

LinksFiles ==
    UNION {[1..k -> Lines] : k \in 0..MaxLines}
    \cup {ScenarioA,
          \* two seeds share a neighbor; an edge joins two neighbors; a self-loop
          << <<A, C, 400>>, <<B, C, 400>>, <<D, A, 700>> >>,
          << <<A, B, 700>>, <<C, A, 700>>, <<B, C, 400>>, <<D, A, 700>> >>,
          << <<A, A, 700>>, <<B, A, 400>>, <<B, B, 400>> >>}

HashOrders == {<<A, B, C, D>>, <<D, B, C, A>>, <<C, A, D, B>>}

\* Id lists handed to the operations: subsets in order, reorderings, repeats.
IdLists == {<<>>, <<A>>, <<B>>, <<C>>, <<A, B>>, <<A, C>>, <<B, C>>, <<A, B, C>>,
            <<B, A>>, <<C, B, A>>, <<A, A>>, <<B, A, B>>, <<A, B, C, D>>}

Thresholds == {0, 500}

NoCall == [op |-> "none", ids |-> <<>>, thr |-> 0, max_nodes |-> 0, n |-> 0,
           queries |-> <<>>, taxon_id |-> None, input_text |-> <<>>, mode |-> "none"]
NoRet == [nodes |-> <<>>, edges |-> <<>>, out |-> <<>>, neighbor_score |-> <<>>,
          again |-> <<>>, node_attrs |-> <<>>, deg |-> <<>>, built |-> FALSE]

InitGraph ==
    /\ pc = "build"
    /\ links_file \in LinksFiles
    /\ edges_table = <<>>
    /\ hash_order \in HashOrders
    /\ proteins = <<>>
    /\ aliases = <<>>
    /\ call = NoCall
    /\ ret = NoRet

\* build_db.py main: load_edges fills the (empty) edge table.
LoadEdges ==
    /\ pc = "build"
    /\ pc' = "ready"
    /\ edges_table' = edges_table \o load_edges(links_file)
    /\ UNCHANGED <<links_file, hash_order, proteins, aliases, call, ret>>

FetchEdgesInduced ==
    /\ pc = "ready"
    /\ \E ids \in IdLists, thr \in Thresholds, n \in 1..MaxWindow :
          /\ call' = [NoCall EXCEPT !.op = "fetch_edges_induced", !.ids = ids,
                                    !.thr = thr, !.n = n]
          /\ ret' = [NoRet EXCEPT !.edges = fetch_edges_induced(ids, thr, n)]
    /\ pc' = "done"
    /\ UNCHANGED <<links_file, edges_table, hash_order, proteins, aliases>>

FetchEdgesAdjacent ==
    /\ pc = "ready"
    /\ \E ids \in IdLists, thr \in Thresholds, n \in 1..MaxWindow :
          /\ call' = [NoCall EXCEPT !.op = "fetch_edges_adjacent", !.ids = ids,
                                    !.thr = thr, !.n = n]
          /\ ret' = [NoRet EXCEPT !.edges = fetch_edges_adjacent(ids, thr, n)]
    /\ pc' = "done"
    /\ UNCHANGED <<links_file, edges_table, hash_order, proteins, aliases>>

Expand1Hop ==
    /\ pc = "ready"
    /\ \E ids \in IdLists, thr \in Thresholds, n \in 1..MaxWindow,
          max_nodes \in 0..MaxBudget :
          /\ call' = [NoCall EXCEPT !.op = "expand_1hop", !.ids = ids, !.thr = thr,
                                    !.n = n, !.max_nodes = max_nodes]
          /\ LET r == expand_1hop(ids, thr, max_nodes, n)
             IN  ret' = [NoRet EXCEPT !.nodes = r.nodes, !.edges = r.edges,
                                      !.neighbor_score = r.neighbor_score]
    /\ pc' = "done"
    /\ UNCHANGED <<links_file, edges_table, hash_order, proteins, aliases>>

NextGraph == LoadEdges \/ FetchEdgesInduced \/ FetchEdgesAdjacent \/ Expand1Hop

SpecGraph == InitGraph /\ [][NextGraph]_vars

(***************************************************************************)
(* scripts/build_db.py: load_aliases                                       *)
(***************************************************************************)
IsDigit(c) == 48 <= c /\ c <= 57

\* re.match(r"^(\d+)\.", protein_id): the digits before the first dot, or None.
parse_taxon_id(protein_id) ==
    LET stops == {i \in 1..Len(protein_id) : ~IsDigit(protein_id[i])}
    IN  IF stops = {} THEN None
        ELSE LET k == CHOOSE i \in stops : \A j \in stops : i <= j
             IN  IF k > 1 /\ protein_id[k] = 46 THEN SubSeq(protein_id, 1, k - 1) ELSE None

\* The row load_aliases stores for a line (protein_id, alias, source).
AliasRow(alias, protein_id, source) ==
    <<alias, protein_id, source,
      IF parse_taxon_id(protein_id) = None THEN <<>> ELSE parse_taxon_id(protein_id)>>

(***************************************************************************)
(* The resolver: one store, one resolve_ids request.                       *)
(***************************************************************************)
MidRun == 9      \* copies of a row, enough to pass the candidate cap
BigRun == 49     \* copies of a row, enough to pass the alias row limit
MaxQueries == 2  \* queries of a request

P1 == <<57, 46, 65>>  \* "9.A"
P2 == <<57, 46, 66>>  \* "9.B"
P3 == <<55, 46, 65>>  \* "7.A"

UniProt == <<85, 110, 105, 80, 114, 111, 116>>     \* "UniProt"
UnknownSrc == <<85, 110, 107, 110, 111, 119, 110, 83, 114, 99>>  \* "UnknownSrc"
Ensembl == <<69, 110, 115, 101, 109, 98, 108>>     \* "Ensembl"
HGNC == <<72, 71, 78, 67>>                \* "HGNC"
Other == <<79, 116, 104, 101, 114>>          \* "Other"

\* The alias rows a store may hold: "x" and "X" name three proteins under
\* ranked and unranked sources; "9.A", the key of P1, is an alias of P2.
AliasRowUniverse ==
    << AliasRow(<<120>>, P2, UniProt),
       AliasRow(<<88>>, P1, UnknownSrc),
       AliasRow(<<120>>, P3, Ensembl),
       AliasRow(P1, P2, HGNC),
       AliasRow(<<120>>, P2, Other) >>

\* How many copies of each row of the universe a store may hold.
CopyChoices(k) == IF k <= 2 THEN {0, 1, MidRun, BigRun} ELSE {0, 1}

\* The rowid order of the rows in the store.
StoreOrders == {<<1, 2, 3, 4, 5>>, <<5, 4, 3, 2, 1>>}

AliasTable(copies, order) ==
    SelectSeq([k \in 1..Len(order) |-> <<AliasRowUniverse[order[k]], copies[order[k]]>>],
              LAMBDA run : run[2] > 0)

AliasTables ==
    {AliasTable(copies, order) :
        copies \in {c \in [1..Len(AliasRowUniverse) -> {0, 1, MidRun, BigRun}] :
                       \A k \in DOMAIN c : c[k] \in CopyChoices(k)},
        order \in StoreOrders}

\* proteins: every protein known; P1 unknown; a protein without a name.
ProteinTables ==
    { << <<P1, <<84, 80, 53, 51>>>>, <<P2, <<66, 82, 67, 65, 49>>>>, <<P3, <<84, 114, 112, 53, 51>>>> >>,
      << <<P2, <<66, 82, 67, 65, 49>>>>, <<P3, None>> >> }

\* "", "  ", " x", "X ", "9.A"
Queries == {<<>>, <<32, 32>>, <<32, 120>>, <<88, 32>>, P1}

TaxonChoices == {None, <<>>, <<57>>, <<55>>}

InitResolve ==
    /\ pc = "ready"
    /\ links_file = <<>>
    /\ edges_table = <<>>
    /\ hash_order = <<A, B, C, D>>
    /\ proteins \in ProteinTables
    /\ aliases \in AliasTables
    /\ call = NoCall
    /\ ret = NoRet

ResolveIds ==
    /\ pc = "ready"
    /\ \E k \in 0..MaxQueries : \E queries \in [1..k -> Queries] :
       \E taxon_id \in TaxonChoices :
          /\ call' = [NoCall EXCEPT !.op = "resolve_ids", !.queries = queries,
                                    !.taxon_id = taxon_id]
          /\ ret' = [NoRet EXCEPT !.out = resolve_ids(queries, taxon_id)]
    /\ pc' = "done"
    /\ UNCHANGED <<links_file, edges_table, hash_order, proteins, aliases>>

NextResolve == ResolveIds

SpecResolve == InitResolve /\ [][NextResolve]_vars

Reverse(s) == [i \in 1..Len(s) |-> s[Len(s) + 1 - i]]

\* The alias query has no ORDER BY: the order in which the store yields the
\* rows of the unchanged table is the store's choice (scan of the table or
\* of either index, forwards or backwards).  The sequence held in aliases is
\* the order of the current query.
RowOrders(table) == {table, Reverse(table)}

\* Between two calls the table keeps its rows; the store settles the order
\* in which the next query will yield them.
StoreOrdersRows ==
    /\ pc = "done" /\ call.op = "resolve_ids"
    /\ aliases' \in RowOrders(aliases)
    /\ pc' = "ready2"
    /\ UNCHANGED <<links_file, edges_table, hash_order, proteins, call, ret>>

\* A second resolve_ids call with the same queries and taxon filter.
ResolveAgain ==
    /\ pc = "ready2"
    /\ ret' = [ret EXCEPT !.again = resolve_ids(call.queries, call.taxon_id)]
    /\ pc' = "done2"
    /\ UNCHANGED <<links_file, edges_table, hash_order, proteins, aliases, call>>

NextResolveTwice == ResolveIds \/ StoreOrdersRows \/ ResolveAgain

SpecResolveTwice == InitResolve /\ [][NextResolveTwice]_vars

(***************************************************************************)
(* app/db.py: get_node_attributes                                          *)
(***************************************************************************)
\* d[key] = value, on a dict kept as its items in insertion order.
DictSet(d, key, value) ==
    LET at == {i \in 1..Len(d) : d[i][1] = key}
    IN  IF at = {}
        THEN Append(d, <<key, value>>)
        ELSE [d EXCEPT ![CHOOSE j \in at : TRUE] = <<key, value>>]

\* SELECT protein_id, preferred_name FROM proteins WHERE protein_id IN (chunk)
SelectProteins(chunk) == SelectSeq(proteins, LAMBDA p : p[1] \in Range(chunk))

\* r["preferred_name"] or r["protein_id"]
NameOrId(r) == IF r[2] = None \/ r[2] = <<>> THEN r[1] ELSE r[2]

\* for r in rows: attrs[r["protein_id"]] = {"preferred_name": ...}
RECURSIVE AttrRows(_, _)
AttrRows(rows, attrs) ==
    IF rows = <<>> THEN attrs
    ELSE AttrRows(Tail(rows), DictSet(attrs, Head(rows)[1], NameOrId(Head(rows))))

RECURSIVE AttrBatches(_, _)
AttrBatches(chunks, attrs) ==
    IF chunks = <<>> THEN attrs
    ELSE AttrBatches(Tail(chunks), AttrRows(SelectProteins(Head(chunks)), attrs))

\* The fallback loop: an id without an entry gets itself as its name.
RECURSIVE AttrFallback(_, _)
AttrFallback(ids, attrs) ==
    IF ids = <<>> THEN attrs
    ELSE IF \E i \in 1..Len(attrs) : attrs[i][1] = Head(ids)
         THEN AttrFallback(Tail(ids), attrs)
         ELSE AttrFallback(Tail(ids), Append(attrs, <<Head(ids), Head(ids)>>))

\* get_node_attributes without the fallback loop.
get_node_attributes_NoFallback(protein_ids, n) ==
    IF protein_ids = <<>> THEN <<>>
    ELSE AttrBatches(_chunked(protein_ids, n), <<>>)

\* The returned dict pid -> {"preferred_name": ...}, as items <<pid, name>>.
get_node_attributes(protein_ids, n) ==
    IF protein_ids = <<>> THEN <<>>
    ELSE AttrFallback(protein_ids, AttrBatches(_chunked(protein_ids, n), <<>>))

(***************************************************************************)
(* app/app.py: parse_input and the run handler                             *)
(***************************************************************************)
\* The pieces of s between separators, empty pieces dropped; cur is the
\* piece being read.
RECURSIVE SplitOn(_, _, _)
SplitOn(s, seps, cur) ==
    IF s = <<>> THEN (IF cur = <<>> THEN <<>> ELSE <<cur>>)
    ELSE IF Head(s) \in seps
         THEN (IF cur = <<>> THEN <<>> ELSE <<cur>>) \o SplitOn(Tail(s), seps, <<>>)
         ELSE SplitOn(Tail(s), seps, Append(cur, Head(s)))

\* str.splitlines() boundaries and str.split() whitespace, within ASCII.
LineBreaks == {10, 11, 12, 13}
Whitespace == {9, 10, 11, 12, 13, 32}

\* line.replace(",", " ")
ReplaceComma(line) == [i \in 1..Len(line) |-> IF line[i] = 44 THEN 32 ELSE line[i]]

\* "de-dup preserve order", also list(dict.fromkeys(seq)).
RECURSIVE Unique(_, _)
Unique(seq, seen) ==
    IF seq = <<>> THEN <<>>
    ELSE IF Head(seq) \in seen
         THEN Unique(Tail(seq), seen)
         ELSE <<Head(seq)>> \o Unique(Tail(seq), seen \cup {Head(seq)})

parse_input(text) ==
    LET lines == SplitOn(text, LineBreaks, <<>>)
        raw == Concat([i \in 1..Len(lines) |->
                          SplitOn(ReplaceComma(strip(lines[i])), Whitespace, <<>>)])
    IN  Unique(raw, {})

\* seed_ids of the run handler: the protein_id of every resolved or
\* ambiguous item that has one, first occurrences in order.
SeedIds(resolved) ==
    LET usable == SelectSeq(resolved, LAMBDA r :
                      /\ r.status \in {"resolved", "ambiguous"}
                      /\ r.protein_id # None /\ r.protein_id # <<>>)
    IN  Unique([i \in 1..Len(usable) |-> usable[i].protein_id], {})

\* deg[key] += 1 when key is in deg.
DegBump(deg, key) ==
    [i \in 1..Len(deg) |-> IF deg[i][1] = key THEN <<key, deg[i][2] + 1>> ELSE deg[i]]

\* for a, b, _ in edges: count a and b into deg.
RECURSIVE DegLoop(_, _)
DegLoop(edges, deg) ==
    IF edges = <<>> THEN deg
    ELSE DegLoop(Tail(edges), DegBump(DegBump(deg, Head(edges)[1]), Head(edges)[2]))

\* The two values of the mode radio button ("入力集合内のみ", "1-hop拡張").
Modes == {"input-set", "1-hop"}

\* The handler up to the node and edge tables handed to display and export.
RunResult(input_text, taxon_text, mode, score_thr_int, max_nodes, n) ==
    LET queries == parse_input(input_text)
        taxon_id == IF strip(taxon_text) = <<>> THEN None ELSE strip(taxon_text)
        resolved == resolve_ids(queries, taxon_id)
        seed_ids == SeedIds(resolved)
        g == IF mode = "1-hop"
             THEN expand_1hop(seed_ids, score_thr_int, max_nodes, n)
             ELSE [nodes |-> seed_ids,
                   edges |-> fetch_edges_induced(seed_ids, score_thr_int, n)]
        nodes == IF Len(g.nodes) > max_nodes THEN SubSeq(g.nodes, 1, max_nodes) ELSE g.nodes
    IN  IF queries = <<>> THEN NoRet
        ELSE IF seed_ids = <<>> THEN [NoRet EXCEPT !.out = resolved]
        ELSE [NoRet EXCEPT !.out = resolved, !.nodes = nodes, !.edges = g.edges,
                           !.node_attrs = get_node_attributes(nodes, n),
                           !.deg = DegLoop(g.edges, [i \in 1..Len(nodes) |-> <<nodes[i], 0>>]),
                           !.built = TRUE]

\* proteins: A named, B with a NULL name, C with an empty name, D absent.
AppProteins == << <<A, <<84, 80, 53, 51>>>>, <<B, None>>, <<C, <<>>>> >>

\* aliases: "x" names D and "y" names A, both of taxon "9".
AppAliases == << << <<<<120>>, D, UniProt, <<57>>>>, 1 >>,
                 << <<<<121>>, A, UniProt, <<57>>>>, 1 >> >>

AppLinksFiles ==
    {<<>>, << <<A, C, 700>> >>, ScenarioA,
     << <<A, C, 400>>, <<B, C, 400>>, <<D, A, 700>> >>,
     << <<A, B, 700>>, <<C, A, 700>>, <<B, C, 400>>, <<D, A, 700>> >>,
     << <<A, A, 700>>, <<B, A, 400>>, <<B, B, 400>> >>}

\* "", "z", "A", "A,B", "B A", "A\nB\nC", "y A x", "C, B ,A A", "A B C x"
AppTexts ==
    {<<>>, <<122>>, <<65>>, <<65, 44, 66>>, <<66, 32, 65>>, <<65, 10, 66, 10, 67>>,
     <<121, 32, 65, 32, 120>>, <<67, 44, 32, 66, 32, 44, 65, 32, 65>>,
     <<65, 32, 66, 32, 67, 32, 120>>}

\* "", " 9", "7"
AppTaxonTexts == {<<>>, <<32, 57>>, <<55>>}

InitApp ==
    /\ pc = "build"
    /\ links_file \in AppLinksFiles
    /\ edges_table = <<>>
    /\ hash_order \in HashOrders
    /\ proteins = AppProteins
    /\ aliases = AppAliases
    /\ call = NoCall
    /\ ret = NoRet

GetNodeAttributes ==
    /\ pc = "ready"
    /\ \E ids \in IdLists, n \in 1..MaxWindow :
          /\ call' = [NoCall EXCEPT !.op = "get_node_attributes", !.ids = ids, !.n = n]
          /\ ret' = [NoRet EXCEPT !.node_attrs = get_node_attributes(ids, n)]
    /\ pc' = "done"
    /\ UNCHANGED <<links_file, edges_table, hash_order, proteins, aliases>>

\* The run button.  The number input's smallest max_nodes (50) is scaled to 1.
Run ==
    /\ pc = "ready"
    /\ \E input_text \in AppTexts, taxon_text \in AppTaxonTexts, mode \in Modes,
          thr \in Thresholds, max_nodes \in 1..MaxBudget, n \in 1..MaxWindow :
          /\ call' = [NoCall EXCEPT !.op = "run", !.input_text = input_text,
                                    !.taxon_id = taxon_text, !.mode = mode, !.thr = thr,
                                    !.max_nodes = max_nodes, !.n = n]
          /\ ret' = RunResult(input_text, taxon_text, mode, thr, max_nodes, n)
    /\ pc' = "done"
    /\ UNCHANGED <<links_file, edges_table, hash_order, proteins, aliases>>

NextApp == LoadEdges \/ GetNodeAttributes \/ Run

SpecApp == InitApp /\ [][NextApp]_vars

(***************************************************************************)
(* Properties of the graph engine, over the behaviours of SpecGraph        *)
(***************************************************************************)
ArgSet == Range(call.ids)

\* The rows of the edge table at or above the request's threshold.
Qualifying == {r \in Range(edges_table) : r[3] >= call.thr}

PairsOf(edges) == {<<e[1], e[2]>> : e \in Range(edges)}

MaxOf(S) == CHOOSE x \in S : \A y \in S : y <= x

\* The largest qualifying score stored for the pair <<p1, p2>>.
StoredMax(p1, p2) == MaxOf({r[3] : r \in {q \in Qualifying : q[1] = p1 /\ q[2] = p2}})

NoPairTwice(edges) ==
    \A i, j \in 1..Len(edges) :
        (edges[i][1] = edges[j][1] /\ edges[i][2] = edges[j][2]) => i = j

\* C1: the node sequence returned by expand_1hop is never longer than
\* max_nodes, whatever the seeds, the threshold, the store and max_nodes.
C1_BudgetBound ==
    (pc = "done" /\ call.op = "expand_1hop") => Len(ret.nodes) <= call.max_nodes

\* C2: fetch_edges_induced returns exactly the stored rows with
\* score_int >= t and both endpoints in ids (as a set of triples): nothing
\* outside, nothing missing, whatever the number of batches.
C2_InducedExact ==
    (pc = "done" /\ call.op = "fetch_edges_induced") =>
        Range(ret.edges) = {r \in Qualifying : r[1] \in ArgSet /\ r[2] \in ArgSet}

\* C2 witness: an induced fetch split into several batches that returns an
\* edge while the table also holds a row it must leave out.
C2_Witness ==
    /\ pc = "done" /\ call.op = "fetch_edges_induced"
    /\ Cardinality(ArgSet) > call.n
    /\ ret.edges # <<>>
    /\ \E r \in Range(edges_table) : r \notin Range(ret.edges)

\* C3: the pairs returned by fetch_edges_adjacent are exactly the stored
\* pairs that have a row with score_int >= t and p1 or p2 among the seeds.
C3_AdjacentExact ==
    (pc = "done" /\ call.op = "fetch_edges_adjacent") =>
        PairsOf(ret.edges) =
            {<<r[1], r[2]>> : r \in {q \in Qualifying : q[1] \in ArgSet \/ q[2] \in ArgSet}}

\* C3 witness: an adjacent fetch that returns a pair reached only through
\* its p2 endpoint and leaves out a stored pair touching no seed.
C3_Witness ==
    /\ pc = "done" /\ call.op = "fetch_edges_adjacent"
    /\ \E e \in Range(ret.edges) : e[1] \notin ArgSet /\ e[2] \in ArgSet
    /\ \E r \in Qualifying : <<r[1], r[2]>> \notin PairsOf(ret.edges)

\* C4: fetch_edges_adjacent lists each pair at most once, with the largest
\* score among the rows retrieved for it by the p1- and p2-anchored batches.
C4_AdjacentDedupMax ==
    (pc = "done" /\ call.op = "fetch_edges_adjacent") =>
        /\ NoPairTwice(ret.edges)
        /\ \A e \in Range(ret.edges) : e[3] = StoredMax(e[1], e[2])

\* C4 witness: a pair with both endpoints among the seeds, split over two
\* batches, stored with two different qualifying scores, the larger one last.
C4_Witness ==
    /\ pc = "done" /\ call.op = "fetch_edges_adjacent"
    /\ call.n = 1
    /\ \E i, j \in 1..Len(edges_table) :
          /\ i < j
          /\ edges_table[i][1] = edges_table[j][1]
          /\ edges_table[i][2] = edges_table[j][2]
          /\ edges_table[i][1] \in ArgSet /\ edges_table[i][2] \in ArgSet
          /\ edges_table[i][1] # edges_table[i][2]
          /\ call.thr <= edges_table[i][3]
          /\ edges_table[i][3] < edges_table[j][3]
          /\ <<edges_table[j][1], edges_table[j][2], edges_table[j][3]>> \in Range(ret.edges)

\* C5: the edge list of the Graph built for a request (fetch_edges_induced
\* in input-set mode, expand_1hop's edges in 1-hop mode) holds each
\* canonical pair at most once, with the largest score stored for it, also
\* when the table has several rows for the pair.
C5_GraphEdgesDeduplicated ==
    (pc = "done" /\ call.op \in {"fetch_edges_induced", "expand_1hop"}) =>
        /\ NoPairTwice(ret.edges)
        /\ \A e \in Range(ret.edges) : e[3] = StoredMax(e[1], e[2])

\* The seeds of the request that a qualifying stored row joins to node c.
SeedsJoined(c) ==
    {s \in ArgSet : \E r \in Qualifying : {r[1], r[2]} = {s, c}}

\* The candidate neighbors of the request: non-seeds joined to a seed.
Candidates == {c \in Ids \ ArgSet : SeedsJoined(c) # {}}

\* The score stored for the pair {s, c}: the largest qualifying one.
PairScore(s, c) == IF StrLess(s, c) THEN StoredMax(s, c) ELSE StoredMax(c, s)

\* The sum over the seeds in S of the score stored for their pair with c.
RECURSIVE SumPairScores(_, _)
SumPairScores(S, c) ==
    IF S = {} THEN 0
    ELSE LET s == CHOOSE x \in S : TRUE
         IN  PairScore(s, c) + SumPairScores(S \ {s}, c)

\* The accumulated score of candidate c: one term per seed it is joined to.
Total(c) == SumPairScores(SeedsJoined(c), c)

\* Candidate x ranks before candidate y: higher total, then smaller id.
Outranks(x, y) == Total(x) > Total(y) \/ (Total(x) = Total(y) /\ StrLess(x, y))

\* The neighbors a finished expand_1hop request admitted, in order.
Admitted == SubSeq(ret.nodes, Cardinality(ArgSet) + 1, Len(ret.nodes))

\* C10: with fewer seeds than max_nodes, the admitted neighbors are the
\* first min(max_nodes - |seeds|, number of candidates) candidates in the
\* order (descending accumulated score, ascending id); in Scenario A the
\* result is nodes [A, C] and edges [(A, C, 900)].
C10_TopNeighborsAdmitted ==
    (pc = "done" /\ call.op = "expand_1hop") =>
        /\ (ArgSet # {} /\ Cardinality(ArgSet) < call.max_nodes) =>
              /\ Len(Admitted) = Min(call.max_nodes - Cardinality(ArgSet),
                                     Cardinality(Candidates))
              /\ Range(Admitted) \subseteq Candidates
              /\ \A i, j \in 1..Len(Admitted) : i < j => Outranks(Admitted[i], Admitted[j])
              /\ \A x \in Range(Admitted) : \A y \in Candidates \ Range(Admitted) : Outranks(x, y)
        /\ (links_file = ScenarioA /\ ArgSet = {A} /\ call.thr = 0 /\ call.max_nodes = 2) =>
              /\ ret.nodes = <<A, C>>
              /\ ret.edges = << <<A, C, 900>> >>

\* C10 witness: an expansion with budget left that admits a neighbor and
\* leaves out a candidate with the same accumulated score.
C10_Witness ==
    /\ pc = "done" /\ call.op = "expand_1hop"
    /\ ArgSet # {} /\ Cardinality(ArgSet) < call.max_nodes
    /\ \E x \in Range(Admitted) : \E y \in Candidates \ Range(Admitted) :
          Total(x) = Total(y)

Expanded == pc = "done" /\ call.op = "expand_1hop"

\* The stored qualifying rows with both endpoints in the node set S.
InducedRows(S) == {r \in Qualifying : r[1] \in S /\ r[2] \in S}

\* C14: the accumulated score of a non-seed node is the sum, over the
\* distinct pairs of the adjacency pass that join it to a seed, of the
\* pair's retained score; an edge between two seeds (a self-loop on a seed
\* included) adds to no total, and a pair is counted once however often it
\* was retrieved.
C14_AccumulatedScores ==
    (Expanded /\ ArgSet # {}) =>
        /\ {ret.neighbor_score[i][1] : i \in 1..Len(ret.neighbor_score)} = Candidates
        /\ \A i, j \in 1..Len(ret.neighbor_score) :
              ret.neighbor_score[i][1] = ret.neighbor_score[j][1] => i = j
        /\ \A i \in 1..Len(ret.neighbor_score) :
              ret.neighbor_score[i][2] = Total(ret.neighbor_score[i][1])

\* C14 witness: two seeds, fetched in two batches, are joined by a stored
\* edge and share a neighbor, whose total is the sum of its two pairs.
C14_Witness ==
    /\ Expanded /\ call.n = 1
    /\ \E r \in Qualifying : r[1] \in ArgSet /\ r[2] \in ArgSet
    /\ \E i \in 1..Len(ret.neighbor_score) :
          /\ Cardinality(SeedsJoined(ret.neighbor_score[i][1])) = 2
          /\ ret.neighbor_score[i][2] = 1100

C16_EdgesInducedByNodes ==
    Expanded => Range(ret.edges) = InducedRows(Range(ret.nodes))

\* C16 witness: two neighbors are admitted and the returned edges hold an
\* edge between them, while a stored edge to a node left out is not returned.
C16_Witness ==
    /\ Expanded
    /\ \E e \in Range(ret.edges) :
          e[1] \notin ArgSet /\ e[2] \notin ArgSet /\ e[1] # e[2]
    /\ \E r \in Qualifying : r \notin Range(ret.edges)

\* The batch window of the source: every id set of the model fits in it.
Unbatched == 900

\* C17: the results do not depend on batching: for every window >= 1 and
\* every order in which the ids are split, the edge set of
\* fetch_edges_induced and of fetch_edges_adjacent, and the accumulated
\* scores, admitted neighbors and edges of expand_1hop, are those of a
\* single unbatched query.
C17_BatchingIndependent ==
    /\ (pc = "done" /\ call.op = "fetch_edges_induced") =>
          Range(ret.edges) = Range(fetch_edges_induced(call.ids, call.thr, Unbatched))
    /\ (pc = "done" /\ call.op = "fetch_edges_adjacent") =>
          Range(ret.edges) = Range(fetch_edges_adjacent(call.ids, call.thr, Unbatched))
    /\ Expanded =>
          LET u == expand_1hop(call.ids, call.thr, call.max_nodes, Unbatched)
          IN  /\ ret.nodes = u.nodes
              /\ Range(ret.neighbor_score) = Range(u.neighbor_score)
              /\ Range(ret.edges) = Range(u.edges)

\* C17 witness: an expansion whose three seeds are fetched in two batches,
\* the second one shorter, accumulates a score and returns an edge.
C17_Witness ==
    /\ Expanded
    /\ call.n = 2 /\ Cardinality(ArgSet) = 3
    /\ ret.neighbor_score # <<>>
    /\ ret.edges # <<>>

(***************************************************************************)
(* Properties of the resolver, over the behaviours of SpecResolve          *)
(***************************************************************************)
\* s without its leading whitespace, without its trailing whitespace.
RECURSIVE DropLeading(_)
DropLeading(s) == IF s # <<>> /\ IsSpace(Head(s)) THEN DropLeading(Tail(s)) ELSE s

RECURSIVE DropTrailing(_)
DropTrailing(s) ==
    IF s # <<>> /\ IsSpace(s[Len(s)]) THEN DropTrailing(SubSeq(s, 1, Len(s) - 1)) ELSE s

Trimmed(s) == DropTrailing(DropLeading(s))

\* The queries of the request that are not blank, trimmed, in input order.
KeptQueries ==
    LET kept == SelectSeq(call.queries, LAMBDA q : \E i \in 1..Len(q) : ~IsSpace(q[i]))
    IN  [i \in 1..Len(kept) |-> Trimmed(kept[i])]

Resolved == pc = "done" /\ call.op = "resolve_ids"

HasFilter == call.taxon_id # None /\ call.taxon_id # <<>>

Folded(s) == [i \in 1..Len(s) |-> IF s[i] \in 65..90 THEN s[i] + 32 ELSE s[i]]

\* The stored alias runs that match query q under the request's taxon filter.
MatchingRuns(q) ==
    SelectSeq(aliases, LAMBDA run :
        /\ Folded(run[1][1]) = Folded(q)
        /\ HasFilter => run[1][4] = call.taxon_id)

\* The stored alias runs that match q when no taxon filter is applied.
MatchingRunsAnyTaxon(q) ==
    SelectSeq(aliases, LAMBDA run : Folded(run[1][1]) = Folded(q))

IsPrimaryKey(q) == \E p \in Range(proteins) : p[1] = q

NameOf(protein_id) ==
    IF IsPrimaryKey(protein_id)
    THEN (CHOOSE p \in Range(proteins) : p[1] = protein_id)[2]
    ELSE None

\* C6: a query whose trimmed text is (exact case) the protein_id of a
\* proteins row is resolved to that id with source "direct" and no
\* candidates, whatever alias rows match it and whatever the taxon filter.
C6_DirectMatchWins ==
    Resolved =>
        \A i \in 1..Len(KeptQueries) :
            IsPrimaryKey(KeptQueries[i]) =>
                /\ i <= Len(ret.out)
                /\ ret.out[i].status = "resolved"
                /\ ret.out[i].protein_id = KeptQueries[i]
                /\ ret.out[i].source = Direct
                /\ ret.out[i].candidates = None

\* C6 witness: the query "9.A" is a primary key, is also an alias of another
\* protein, and is resolved under a taxon filter its own taxon fails.
C6_Witness ==
    /\ Resolved
    /\ call.taxon_id = <<55>>
    /\ \E i \in 1..Len(ret.out) :
          /\ ret.out[i].query = P1 /\ IsPrimaryKey(P1)
          /\ ret.out[i].source = Direct
          /\ \E k \in 1..Len(aliases) : aliases[k][1][1] = P1 /\ aliases[k][1][2] # P1

\* C7: resolve_ids returns one item per query that is non-empty after
\* trimming, in input order, with the trimmed text as its query field;
\* blank queries give no item, repeated queries an item each, and an empty
\* query list an empty result.
C7_OneItemPerKeptQuery ==
    Resolved =>
        /\ Len(ret.out) = Len(KeptQueries)
        /\ \A i \in 1..Len(KeptQueries) : ret.out[i].query = KeptQueries[i]

\* C7 witness: a request with a blank query and a padded one returns the
\* single item of the padded query, trimmed.
C7_Witness ==
    /\ Resolved
    /\ Len(call.queries) = 2 /\ Len(ret.out) = 1
    /\ \E i \in 1..2 : call.queries[i] # <<>> /\ \A j \in 1..Len(call.queries[i]) : IsSpace(call.queries[i][j])
    /\ ret.out[1].query \notin Range(call.queries)

\* C8: for a query with no direct match the status follows the number n of
\* alias rows matching it case-insensitively (and matching the taxon filter
\* when one is given): 0 unresolved with no fields, 1 resolved with the
\* fields of that row and no candidates, 2 or more ambiguous with a
\* protein_id and a candidate list.
C8_StatusByMatchCount ==
    Resolved =>
        \A i \in 1..Len(KeptQueries) :
            ~IsPrimaryKey(KeptQueries[i]) =>
                LET q == KeptQueries[i]
                    runs == MatchingRuns(q)
                    n == RowCount(runs)
                    item == ret.out[i]
                IN  /\ i <= Len(ret.out)
                    /\ n = 0 => item = ResolvedItem(q, "unresolved", None, None, None, None)
                    /\ n = 1 => item = ResolvedItem(q, "resolved", runs[1][1][2],
                                                    NameOf(runs[1][1][2]), runs[1][1][3], None)
                    /\ n >= 2 => /\ item.status = "ambiguous"
                                 /\ item.protein_id \notin {None, <<>>}
                                 /\ item.candidates \notin {None, <<>>}

\* C8 witness: a query that differs in case from the stored alias and
\* matches two or more rows is resolved, because the taxon filter leaves one.
C8_Witness ==
    /\ Resolved /\ HasFilter
    /\ \E i \in 1..Len(ret.out) :
          /\ ret.out[i].status = "resolved" /\ ret.out[i].source # Direct
          /\ RowCount(MatchingRunsAnyTaxon(ret.out[i].query)) >= 2
          /\ \E k \in 1..Len(aliases) :
                /\ aliases[k][1][1] # ret.out[i].query
                /\ aliases[k][1][2] = ret.out[i].protein_id

\* The rank of a source: its position in the priority list, every other
\* source after all listed ones.
SourceRank(src) ==
    IF \E i \in 1..Len(priority_sources) : priority_sources[i] = src
    THEN CHOOSE i \in 1..Len(priority_sources) : priority_sources[i] = src
    ELSE Len(priority_sources) + 1

\* Row r1 is not after row r2 in the order (source rank, then protein_id).
NotAfter(r1, r2) ==
    \/ SourceRank(r1.source) < SourceRank(r2.source)
    \/ /\ SourceRank(r1.source) = SourceRank(r2.source)
       /\ ~StrLess(r2.protein_id, r1.protein_id)

\* The runs ordered by repeatedly taking out the earliest run that no
\* other run is strictly before.
RECURSIVE Ordered(_)
Ordered(runs) ==
    IF runs = <<>> THEN <<>>
    ELSE LET least == {k \in 1..Len(runs) : \A j \in 1..Len(runs) : NotAfter(runs[k][1], runs[j][1])}
             m == CHOOSE k \in least : \A j \in least : k <= j
         IN  <<runs[m]>> \o Ordered(SubSeq(runs, 1, m - 1) \o SubSeq(runs, m + 1, Len(runs)))

\* The i-th row of a run-length list.
RECURSIVE RowAt(_, _)
RowAt(runs, i) == IF i <= Head(runs)[2] THEN Head(runs)[1] ELSE RowAt(Tail(runs), i - Head(runs)[2])

\* The rows the alias lookup of query q returned, ordered.
OrderedMatches(q) == Ordered(AliasSelect(q, call.taxon_id))

\* C9: for an ambiguous query the matched alias rows are ordered by (rank
\* of the source in the priority list, unlisted sources last; then
\* ascending protein_id); the item reports the first row of this order and
\* its candidates list the first min(10, n) rows, in order, as
\* "id(source)" joined by "; ".  With one UniProt and one UnknownSrc row the
\* UniProt row is reported and listed first.
C9_AmbiguousOrder ==
    Resolved =>
        \A i \in 1..Len(ret.out) :
            ret.out[i].status = "ambiguous" =>
                LET item == ret.out[i]
                    rows == OrderedMatches(item.query)
                    n == RowCount(rows)
                    listed == [k \in 1..(IF n < 10 THEN n ELSE 10) |-> RowAt(rows, k)]
                IN  /\ n >= 2
                    /\ item.protein_id = RowAt(rows, 1).protein_id
                    /\ item.preferred_name = RowAt(rows, 1).preferred_name
                    /\ item.source = RowAt(rows, 1).source
                    /\ item.candidates =
                           Join([k \in 1..Len(listed) |->
                                    listed[k].protein_id \o <<40>> \o listed[k].source \o <<41>>])
                    /\ (\A k \in 1..Len(aliases) : aliases[k][2] = 1 /\ aliases[k][1][3] \in {UniProt, UnknownSrc})
                       => (/\ item.protein_id = P2 /\ item.source = UniProt
                           \* "9.B(UniProt); 9.A(UnknownSrc)"
                           /\ item.candidates = <<57, 46, 66, 40, 85, 110, 105, 80, 114, 111, 116, 41, 59, 32, 57, 46, 65, 40, 85, 110, 107, 110, 111, 119, 110, 83, 114, 99, 41>>)

\* C9 witness: an ambiguous query with more than ten matching rows, where
\* the reported row has a ranked source and a larger protein_id than a
\* matching row of an unlisted source.
C9_Witness ==
    /\ Resolved
    /\ \E i \in 1..Len(ret.out) :
          /\ ret.out[i].status = "ambiguous"
          /\ RowCount(MatchingRuns(ret.out[i].query)) > 10
          /\ ret.out[i].source = UniProt
          /\ \E k \in 1..Len(aliases) :
                /\ aliases[k][1][3] = UnknownSrc
                /\ Folded(aliases[k][1][1]) = Folded(ret.out[i].query)
                /\ HasFilter => aliases[k][1][4] = call.taxon_id
                /\ StrLess(aliases[k][1][2], ret.out[i].protein_id)

\* The rows of the stored runs, with the fields the alias lookup selects.
StoreRows(runs) ==
    [k \in 1..Len(runs) |->
        <<[protein_id |-> runs[k][1][2], source |-> runs[k][1][3],
           preferred_name |-> NameOf(runs[k][1][2])], runs[k][2]>>]

\* C18: the 50-row cap of the alias lookup does not change the outcome: a
\* query with more matching rows than the cap gets the status, protein_id
\* and candidates it would get from all matching rows, the protein_id being
\* the least under (source rank, protein_id) over all matching stored rows.
C18_CapChangesNothing ==
    Resolved =>
        \A i \in 1..Len(KeptQueries) :
            (/\ ~IsPrimaryKey(KeptQueries[i])
             /\ RowCount(MatchingRuns(KeptQueries[i])) > AliasLimit) =>
                LET all == Ordered(StoreRows(MatchingRuns(KeptQueries[i])))
                    listed == [k \in 1..MaxCandidates |-> RowAt(all, k)]
                IN  /\ i <= Len(ret.out)
                    /\ ret.out[i].status = "ambiguous"
                    /\ ret.out[i].protein_id = RowAt(all, 1).protein_id
                    /\ ret.out[i].candidates =
                           Join([k \in 1..Len(listed) |->
                                    listed[k].protein_id \o <<40>> \o listed[k].source \o <<41>>])

\* The protein_ids listed in an item's candidates: those of the first
\* min(10, n) rows the lookup returned, in order.
ListedIds(item) ==
    LET rows == OrderedMatches(item.query)
        n == RowCount(rows)
    IN  [k \in 1..(IF n < MaxCandidates THEN n ELSE MaxCandidates) |-> RowAt(rows, k).protein_id]

\* C20: a query is reported "ambiguous" only when its alias matches two or
\* more distinct protein_ids: rows that all point to one protein_id (the
\* same alias under two sources) give "resolved", and the candidates of an
\* ambiguous item never list a protein_id twice.
C20_AmbiguousMeansDistinctIds ==
    Resolved =>
        \A i \in 1..Len(KeptQueries) :
            ~IsPrimaryKey(KeptQueries[i]) =>
                LET runs == MatchingRuns(KeptQueries[i])
                    ids == {runs[k][1][2] : k \in 1..Len(runs)}
                IN  /\ i <= Len(ret.out)
                    /\ ret.out[i].status = "ambiguous" => Cardinality(ids) >= 2
                    /\ Cardinality(ids) = 1 => ret.out[i].status = "resolved"
                    /\ ret.out[i].status = "ambiguous" =>
                          \A j, k \in 1..Len(ListedIds(ret.out[i])) :
                              ListedIds(ret.out[i])[j] = ListedIds(ret.out[i])[k] => j = k

(***************************************************************************)
(* Properties of two resolve_ids calls, over the behaviours of             *)
(* SpecResolveTwice.                                                       *)
(***************************************************************************)

\* C13: two resolve_ids calls with the same queries and taxon filter on an
\* unchanged store return the same status, protein_id, source and
\* candidates for every query, whatever the order in which the store
\* yields the matching alias rows.
C13_SameResultAnyRowOrder ==
    pc = "done2" =>
        /\ Len(ret.again) = Len(ret.out)
        /\ \A i \in 1..Len(ret.out) :
              /\ ret.again[i].status = ret.out[i].status
              /\ ret.again[i].protein_id = ret.out[i].protein_id
              /\ ret.again[i].source = ret.out[i].source
              /\ ret.again[i].candidates = ret.out[i].candidates

(***************************************************************************)
(* Properties of the run handler and of get_node_attributes, over the      *)
(* behaviours of SpecApp.                                                  *)
(***************************************************************************)
Ran == pc = "done" /\ call.op = "run" /\ ret.built

\* Item i of the resolution result gives a seed.
GivesSeed(i) ==
    /\ ret.out[i].status \in {"resolved", "ambiguous"}
    /\ ret.out[i].protein_id # None /\ ret.out[i].protein_id # <<>>

\* The seeds in the order of the first item that gives each of them.
RECURSIVE SeedsFrom(_)
SeedsFrom(i) ==
    IF i > Len(ret.out) THEN <<>>
    ELSE IF GivesSeed(i) /\ \A j \in 1..(i - 1) :
                                GivesSeed(j) => ret.out[j].protein_id # ret.out[i].protein_id
         THEN <<ret.out[i].protein_id>> \o SeedsFrom(i + 1)
         ELSE SeedsFrom(i + 1)

\* C11: in 1-hop mode the final node sequence lists the seeds first, each
\* once, in the order in which the resolved or ambiguous queries first
\* produced them, and only then the admitted neighbors: expand_1hop does
\* not reorder the seeds it is given.
C11_SeedsFirstInCallerOrder ==
    (Ran /\ call.mode = "1-hop") =>
        LET seeds == SeedsFrom(1)
            k == Min(Len(seeds), Len(ret.nodes))
        IN  /\ SubSeq(ret.nodes, 1, k) = SubSeq(seeds, 1, k)
            /\ \A i \in (k + 1)..Len(ret.nodes) : ret.nodes[i] \notin Range(seeds)
            /\ \A i, j \in 1..Len(ret.nodes) : ret.nodes[i] = ret.nodes[j] => i = j

\* C12: get_node_attributes returns a map whose keys are exactly the input
\* ids; the name of an id is its stored preferred_name when it has a
\* proteins row with a non-empty one, and the id itself when it has no row
\* or a NULL or empty name; an empty input gives an empty map.
C12_AttributesForEveryId ==
    (pc = "done" /\ call.op = "get_node_attributes") =>
        /\ {ret.node_attrs[i][1] : i \in 1..Len(ret.node_attrs)} = Range(call.ids)
        /\ \A i, j \in 1..Len(ret.node_attrs) :
              ret.node_attrs[i][1] = ret.node_attrs[j][1] => i = j
        /\ \A i \in 1..Len(ret.node_attrs) :
              LET id == ret.node_attrs[i][1]
              IN  ret.node_attrs[i][2] =
                      IF IsPrimaryKey(id) /\ NameOf(id) # None /\ NameOf(id) # <<>>
                      THEN NameOf(id) ELSE id
        /\ call.ids = <<>> => ret.node_attrs = <<>>

\* C12 witness: ids fetched in four batches, one with a stored name, one
\* with a NULL name, one with an empty name and one without a row.
C12_Witness ==
    /\ pc = "done" /\ call.op = "get_node_attributes"
    /\ call.ids = <<A, B, C, D>> /\ call.n = 1
    /\ Range(ret.node_attrs) = {<<A, <<84, 80, 53, 51>>>>, <<B, B>>, <<C, C>>, <<D, D>>}

RECURSIVE SumDeg(_)
SumDeg(deg) == IF deg = <<>> THEN 0 ELSE Head(deg)[2] + SumDeg(Tail(deg))

\* C19: after the handler's truncation of the nodes to max_nodes the graph
\* is consistent in both modes: every edge handed to display and export
\* has both endpoints among the retained nodes, and the degrees sum to
\* twice the number of edges.
C19_TruncatedGraphConsistent ==
    Ran =>
        /\ \A e \in Range(ret.edges) :
              e[1] \in Range(ret.nodes) /\ e[2] \in Range(ret.nodes)
        /\ SumDeg(ret.deg) = 2 * Len(ret.edges)

====
